---- MODULE Spec2Model ----
(***************************************************************************)
(* A model of the podcast-processing pipeline: the response parser of      *)
(* generators.py (JSON-array extraction, permissive deserialisation,       *)
(* chapter sort+clamp), the generation orchestrator generate_all_content   *)
(* with the retrying ClaudeClient.generate, and the commands of cli.py     *)
(* with the output writer _save_outputs.                                   *)
(*                                                                         *)
(* Texts are sequences of lexemes (tokens): the punctuation of JSON, a     *)
(* whitespace token, a prose word, the literal null, number lexemes and    *)
(* quoted-string lexemes, each standing for itself with its delimiters.    *)
(* Times are integers counting tenths of a second.                         *)
(***************************************************************************)
EXTENDS Integers, Sequences, FiniteSets, TLC

VARIABLES
    cmd,          \* the command being run: "process", "transcribe", "generate"
    api_key,      \* TRUE iff an API key was resolved (option, env or settings)
    pc,           \* position of the run
    step,         \* generation step in progress: "description", "titles", "chapters"
    transcript,   \* the Transcript in hand
    calls,        \* log of the client.generate calls made, in order
    outstanding,  \* API requests in flight
    attempt,      \* API attempts made by the current client.generate call
    response,     \* raw text last returned by the collaborator
    description,  \* result of generate_description
    titles,       \* result of generate_titles
    chapters,     \* result of generate_chapters
    content,      \* the GeneratedContent handed to the writer
    error,        \* the exception raised, if any
    exit_code,    \* exit status of the command (-1 while running)
    reported,     \* what the command last reported to the user
    chapter_count,\* the --chapters option
    fs,           \* the output directory
    api_attempts, \* API requests made by the run so far
    outcome       \* how the last finished attempt of the current client.generate call ended

vars == <<cmd, api_key, pc, step, transcript, calls, outstanding, attempt,
          response, description, titles, chapters, content, error, exit_code,
          reported, chapter_count, fs, api_attempts, outcome>>

(***************************************************************************)
(* Bounds of the model.                                                    *)
(***************************************************************************)
MaxTokLen == 3       \* every token sequence up to this length is a response
MaxChapters == 3     \* longest chapter array among the structured responses
MaxTitles == 3       \* longest title array among the structured responses

(***************************************************************************)
(* Transcripts.  A text is a sequence of characters; a time is an integer  *)
(* counting tenths of a second, a probability an integer counting tenths.  *)
(***************************************************************************)
TranscriptSegment(start, end, text) == [start |-> start, end |-> end, text |-> text]
MkTranscript(segments, words, language, duration) ==
    [segments |-> segments, words |-> words, language |-> language,
     duration |-> duration]

EmptyTranscript == MkTranscript(<<>>, <<>>, "en", 0)

Transcripts ==
    { EmptyTranscript,
      MkTranscript(<<TranscriptSegment(0, 300, <<"H", "i">>),
                     TranscriptSegment(300, 650, <<" ", "y", "o", " ">>)>>,
                   <<>>, "en", 650),
      MkTranscript(<<TranscriptSegment(37250, 37300, <<"b", "y", "e", "\n">>)>>,
                   <<>>, "de", 37300) }

WordTimestamp(word, start, end, probability) ==
    [word |-> word, start |-> start, end |-> end, probability |-> probability]

\* transcripts with word timestamps, untrimmed texts, and a quote and a
\* newline inside a text
WordTranscripts ==
    { MkTranscript(<<TranscriptSegment(0, 300, <<"H", "i">>),
                     TranscriptSegment(300, 650, <<" ", "y", "o", " ">>)>>,
                   <<WordTimestamp(<<"H", "i">>, 0, 150, 9),
                     WordTimestamp(<<" ", "y", "o">>, 300, 450, 10)>>,
                   "en", 650),
      MkTranscript(<<TranscriptSegment(5, 20, <<"\"", "\n", "y">>)>>,
                   <<WordTimestamp(<<"y">>, 5, 20, 0),
                     WordTimestamp(<<"y">>, 5, 20, 0)>>,
                   "de", 20),
      MkTranscript(<<>>, <<WordTimestamp(<<"y">>, 0, 5, 7)>>, "de", 0) }

\* a text as one string value: its characters joined, a quote, a backslash
\* and a newline written as JSON writes them inside a string
Escaped(ch) ==
    CASE ch = "\n" -> "\\n"
      [] ch = "\"" -> "\\\""
      [] ch = "\\" -> "\\\\"
      [] OTHER    -> ch
RECURSIVE AtomOf(_)
AtomOf(text) == IF Len(text) = 0 THEN "" ELSE Escaped(Head(text)) \o AtomOf(Tail(text))

TextsOf(t) ==
    {t.segments[i].text : i \in 1..Len(t.segments)}
    \cup {t.words[i].word : i \in 1..Len(t.words)}
Texts == UNION {TextsOf(t) : t \in Transcripts \cup WordTranscripts}
CharsOf(s) == CHOOSE x \in Texts : AtomOf(x) = s

NumbersOf(t) ==
    {t.duration}
    \cup UNION {{t.segments[i].start, t.segments[i].end} : i \in 1..Len(t.segments)}
    \cup UNION {{t.words[i].start, t.words[i].end, t.words[i].probability} :
                  i \in 1..Len(t.words)}
TranscriptStrings ==
    {"segments", "words", "language", "duration", "start", "end", "text", "word",
     "probability"}
    \cup {AtomOf(x) : x \in Texts}
    \cup {t.language : t \in Transcripts \cup WordTranscripts}
TranscriptNumbers == UNION {NumbersOf(t) : t \in Transcripts \cup WordTranscripts}

(***************************************************************************)
(* Lexemes.                                                                *)
(***************************************************************************)
Strings == {"title", "thumbnail_text", "reasoning", "start_time",
            "description", "extra", "A", "B", "d"} \cup TranscriptStrings
StartTimes == {-10, 0, 5, 20}
Numbers == StartTimes \cup {7} \cup TranscriptNumbers

StrTok(s) == "\"" \o s \o "\""
NumTok(n) == ToString(n)
StrToks == {StrTok(s) : s \in Strings}
NumToks == {NumTok(n) : n \in Numbers}
IsStrTok(t) == t \in StrToks
IsNumTok(t) == t \in NumToks
StrVal(t) == CHOOSE s \in Strings : StrTok(s) = t
NumVal(t) == CHOOSE n \in Numbers : NumTok(n) = t

\* "\n" is whitespace, "Here" a word of prose (no JSON value)
Punct == {"[", "]", "{", "}", ",", ":"}
Tokens == Punct \cup {"\n", "Here", "null"} \cup StrToks \cup NumToks

(***************************************************************************)
(* _extract_json: re.search(r"\[[\s\S]*\]", text).  The leftmost match     *)
(* starts at the first "[" that has a "]" after it, which is the first "[" *)
(* of the text, and the greedy star runs to the last "]".                  *)
(***************************************************************************)
Positions(text, tok) == {i \in 1..Len(text) : text[i] = tok}
SetMin(S) == CHOOSE x \in S : \A y \in S : x <= y
SetMax(S) == CHOOSE x \in S : \A y \in S : y <= x

ReMatches(text) ==
    \E i \in Positions(text, "[") : \E j \in Positions(text, "]") : i < j

\* the non-greedy pattern \[[\s\S]*?\]: the span ends at the first "]"
extract_json_shortest(text) ==
    IF ReMatches(text)
    THEN LET i == SetMin(Positions(text, "["))
             j == SetMin({k \in Positions(text, "]") : k > i})
         IN  SubSeq(text, i, j)
    ELSE text

extract_json(text) ==
    IF ReMatches(text)
    THEN SubSeq(text, SetMin(Positions(text, "[")), SetMax(Positions(text, "]")))
    ELSE text

(***************************************************************************)
(* json.loads on a token sequence.  A JSON value is a record [t, v]:       *)
(* t = "num" (v an integer), "str" (v a string), "null", "arr" (v the      *)
(* sequence of elements) or "obj" (v the sequence of members [k, val] in   *)
(* document order).                                                        *)
(***************************************************************************)
JNull == [t |-> "null", v |-> 0]
JNum(n) == [t |-> "num", v |-> n]
JStr(s) == [t |-> "str", v |-> s]
JArr(a) == [t |-> "arr", v |-> a]
JObj(m) == [t |-> "obj", v |-> m]

StripWs(text) == SelectSeq(text, LAMBDA t : t # "\n")

ParseFail == [ok |-> FALSE, val |-> JNull, next |-> 0]
ParseOk(val, next) == [ok |-> TRUE, val |-> val, next |-> next]

RECURSIVE ParseValue(_, _)
RECURSIVE ParseElems(_, _, _)
RECURSIVE ParseMembers(_, _, _)

ParseValue(toks, i) ==
    IF i > Len(toks) THEN ParseFail
    ELSE LET t == toks[i] IN
         CASE IsNumTok(t) -> ParseOk(JNum(NumVal(t)), i + 1)
           [] IsStrTok(t) -> ParseOk(JStr(StrVal(t)), i + 1)
           [] t = "null"  -> ParseOk(JNull, i + 1)
           [] t = "["     -> IF i + 1 <= Len(toks) /\ toks[i + 1] = "]"
                             THEN ParseOk(JArr(<<>>), i + 2)
                             ELSE ParseElems(toks, i + 1, <<>>)
           [] t = "{"     -> IF i + 1 <= Len(toks) /\ toks[i + 1] = "}"
                             THEN ParseOk(JObj(<<>>), i + 2)
                             ELSE ParseMembers(toks, i + 1, <<>>)
           [] OTHER       -> ParseFail

ParseElems(toks, i, acc) ==
    LET r == ParseValue(toks, i) IN
    IF ~r.ok \/ r.next > Len(toks) THEN ParseFail
    ELSE IF toks[r.next] = "," THEN ParseElems(toks, r.next + 1, Append(acc, r.val))
    ELSE IF toks[r.next] = "]" THEN ParseOk(JArr(Append(acc, r.val)), r.next + 1)
    ELSE ParseFail

ParseMembers(toks, i, acc) ==
    IF i + 1 > Len(toks) THEN ParseFail
    ELSE IF ~IsStrTok(toks[i]) \/ toks[i + 1] # ":" THEN ParseFail
    ELSE LET r == ParseValue(toks, i + 2) IN
         IF ~r.ok \/ r.next > Len(toks) THEN ParseFail
         ELSE LET m == Append(acc, [k |-> StrVal(toks[i]), val |-> r.val]) IN
              IF toks[r.next] = "," THEN ParseMembers(toks, r.next + 1, m)
              ELSE IF toks[r.next] = "}" THEN ParseOk(JObj(m), r.next + 1)
              ELSE ParseFail

json_loads(text) ==
    LET toks == StripWs(text)
        r    == ParseValue(toks, 1)
    IN  IF r.ok /\ r.next = Len(toks) + 1
        THEN [ok |-> TRUE, val |-> r.val]
        ELSE [ok |-> FALSE, val |-> JNull]

(***************************************************************************)
(* dict.get(key, default): the last member with the key wins (json.loads   *)
(* keeps the last of duplicate keys).                                      *)
(***************************************************************************)
HasKey(obj, key) == \E i \in 1..Len(obj.v) : obj.v[i].k = key

\* dict.get(key) without the default: a missing key gives None
DictGetNoDefault(obj, key, default) ==
    IF HasKey(obj, key)
    THEN obj.v[SetMax({i \in 1..Len(obj.v) : obj.v[i].k = key})].val
    ELSE JNull

DictGet(obj, key, default) ==
    IF HasKey(obj, key)
    THEN obj.v[SetMax({i \in 1..Len(obj.v) : obj.v[i].k = key})].val
    ELSE default

(***************************************************************************)
(* `for t in data`: what iterating the parsed value yields.  A list yields *)
(* its elements, a dict its keys, a non-empty str its characters (strs),   *)
(* and a number or None is not iterable (TypeError).                       *)
(***************************************************************************)
Iterable(data) == data.t \in {"arr", "obj", "str"}
Items(data) ==
    CASE data.t = "arr" -> data.v
      [] data.t = "obj" -> [i \in 1..Len(data.v) |-> JStr(data.v[i].k)]
      [] data.t = "str" -> IF data.v = "" THEN <<>> ELSE <<JStr(data.v)>>
      [] OTHER -> <<>>

\* pydantic validation of a str field and of a float field
ValidStr(v) == v.t = "str"
ValidFloat(v) == v.t = "num"

Built(kind, val) == [kind |-> kind, val |-> val]

(***************************************************************************)
(* generate_titles, after the call: extraction, json.loads, and one Title  *)
(* per item.  The comprehension stops at the first item that raises.       *)
(***************************************************************************)
Title(title, thumbnail_text, reasoning) ==
    [title |-> title, thumbnail_text |-> thumbnail_text, reasoning |-> reasoning]

\* a title equal to an earlier one is left out
RECURSIVE TitlesFromItemsUnique(_, _)
TitlesFromItemsUnique(items, acc) ==
    IF Len(items) = 0 THEN Built("ok", acc)
    ELSE LET t  == Head(items) IN
         IF t.t # "obj" THEN Built("AttributeError", <<>>)
         ELSE LET ti == DictGet(t, "title", JStr(""))
                  th == DictGet(t, "thumbnail_text", JStr(""))
                  re == DictGet(t, "reasoning", JStr(""))
              IN  IF ~(ValidStr(ti) /\ ValidStr(th) /\ ValidStr(re))
                  THEN Built("ValidationError", <<>>)
                  ELSE TitlesFromItemsUnique(Tail(items),
                          IF \E i \in 1..Len(acc) : acc[i] = Title(ti.v, th.v, re.v)
                          THEN acc ELSE Append(acc, Title(ti.v, th.v, re.v)))

RECURSIVE TitlesFromItems(_, _)
TitlesFromItems(items, acc) ==
    IF Len(items) = 0 THEN Built("ok", acc)
    ELSE LET t  == Head(items) IN
         IF t.t # "obj" THEN Built("AttributeError", <<>>)
         ELSE LET ti == DictGet(t, "title", JStr(""))
                  th == DictGet(t, "thumbnail_text", JStr(""))
                  re == DictGet(t, "reasoning", JStr(""))
              IN  IF ~(ValidStr(ti) /\ ValidStr(th) /\ ValidStr(re))
                  THEN Built("ValidationError", <<>>)
                  ELSE TitlesFromItems(Tail(items),
                                       Append(acc, Title(ti.v, th.v, re.v)))

ParseTitlesResponse(text) ==
    LET r == json_loads(extract_json(text)) IN
    IF ~r.ok THEN Built("GenerationError", <<>>)
    ELSE IF ~Iterable(r.val) THEN Built("TypeError", <<>>)
    ELSE TitlesFromItems(Items(r.val), <<>>)

(***************************************************************************)
(* generate_chapters, after the call: extraction, json.loads, one Chapter  *)
(* per item, the stable sort by start_time and the clamp of the first.     *)
(***************************************************************************)
Chapter(start_time, title, desc) ==
    [start_time |-> start_time, title |-> title, description |-> desc]

RECURSIVE ChaptersFromItems(_, _)
ChaptersFromItems(items, acc) ==
    IF Len(items) = 0 THEN Built("ok", acc)
    ELSE LET c == Head(items) IN
         IF c.t # "obj" THEN Built("AttributeError", <<>>)
         ELSE LET st == DictGet(c, "start_time", JNum(0))
                  ti == DictGet(c, "title", JStr(""))
                  de == DictGet(c, "description", JStr(""))
              IN  IF ~(ValidFloat(st) /\ ValidStr(ti) /\ ValidStr(de))
                  THEN Built("ValidationError", <<>>)
                  ELSE ChaptersFromItems(Tail(items),
                                         Append(acc, Chapter(st.v, ti.v, de.v)))

\* an unstable insertion: the element goes before its equals
InsertUnstable(sorted, c) ==
    LET k == Cardinality({i \in 1..Len(sorted) : sorted[i].start_time < c.start_time})
    IN  SubSeq(sorted, 1, k) \o <<c>> \o SubSeq(sorted, k + 1, Len(sorted))

\* list.sort(key=start_time) is stable: an element goes after its equals
InsertChapter(sorted, c) ==
    LET k == Cardinality({i \in 1..Len(sorted) : sorted[i].start_time <= c.start_time})
    IN  SubSeq(sorted, 1, k) \o <<c>> \o SubSeq(sorted, k + 1, Len(sorted))

RECURSIVE SortChapters(_)
SortChapters(chs) ==
    IF Len(chs) = 0 THEN <<>>
    ELSE InsertChapter(SortChapters(SubSeq(chs, 1, Len(chs) - 1)), chs[Len(chs)])

\* a clamp of every chapter that starts with the first one
ClampAll(chs) ==
    [i \in 1..Len(chs) |->
        IF chs[i].start_time > 0 /\ chs[i].start_time = chs[1].start_time
        THEN [chs[i] EXCEPT !.start_time = 0] ELSE chs[i]]

ClampFirst(chs) ==
    IF Len(chs) > 0 /\ chs[1].start_time > 0
    THEN [chs EXCEPT ![1].start_time = 0]
    ELSE chs

NormalizeChapters(chs) == ClampFirst(SortChapters(chs))

BuildChapters(data) ==
    IF ~Iterable(data) THEN Built("TypeError", <<>>)
    ELSE ChaptersFromItems(Items(data), <<>>)

ParseChaptersResponse(text) ==
    LET r == json_loads(extract_json(text)) IN
    IF ~r.ok THEN Built("GenerationError", <<>>)
    ELSE LET b == BuildChapters(r.val) IN
         IF b.kind = "ok" THEN Built("ok", NormalizeChapters(b.val)) ELSE b

(***************************************************************************)
(* Transcripts and the prompt payloads.  A text is a sequence of           *)
(* characters; str.strip() drops the whitespace at both ends.              *)
(***************************************************************************)
Whitespace == {" ", "\n"}

RECURSIVE LStrip(_)
LStrip(text) ==
    IF Len(text) > 0 /\ Head(text) \in Whitespace THEN LStrip(Tail(text)) ELSE text

RECURSIVE RStrip(_)
RStrip(text) ==
    IF Len(text) > 0 /\ text[Len(text)] \in Whitespace
    THEN RStrip(SubSeq(text, 1, Len(text) - 1)) ELSE text

Strip(text) == RStrip(LStrip(text))

RECURSIVE Join(_, _)
Join(parts, sep) ==
    IF Len(parts) = 0 THEN <<>>
    ELSE IF Len(parts) = 1 THEN parts[1]
    ELSE parts[1] \o sep \o Join(Tail(parts), sep)

full_text(t) ==
    Join([i \in 1..Len(t.segments) |-> Strip(t.segments[i].text)], <<" ">>)

\* f"{n:02d}" as characters
RECURSIVE Digits(_)
Digits(n) == IF n < 10 THEN <<ToString(n)>> ELSE Digits(n \div 10) \o <<ToString(n % 10)>>
Pad2(n) ==
    IF n < 0 THEN <<"-">> \o Digits(-n)
    ELSE IF n < 10 THEN <<"0">> \o Digits(n)
    ELSE Digits(n)

\* int(x) of a float given in tenths: truncation toward zero
IntOf(x) == IF x >= 0 THEN x \div 10 ELSE -((-x) \div 10)

format_transcript_with_timestamps(t) ==
    Join([i \in 1..Len(t.segments) |->
            LET seg     == t.segments[i]
                minutes == seg.start \div 600
                seconds == IntOf(seg.start % 600)
            IN  <<"[">> \o Pad2(minutes) \o <<":">> \o Pad2(seconds) \o <<"]", " ">>
                \o Strip(seg.text)],
         <<"\n">>)

max_chars == 50000
TruncationMarker == <<"\n", "\n", "[... transcript truncated for length ...]">>

\* a text of exactly max_chars characters taken as too long
TruncateFrom(text) ==
    IF Len(text) < max_chars THEN text
    ELSE SubSeq(text, 1, max_chars) \o TruncationMarker

Truncate(text) ==
    IF Len(text) <= max_chars THEN text
    ELSE SubSeq(text, 1, max_chars) \o TruncationMarker

truncate_transcript(t) == Truncate(full_text(t))

NoCount == -1
Prompt(template, payload, count) ==
    [template |-> template, transcript |-> payload, chapter_count |-> count]

DescriptionPrompt(t) == Prompt("DESCRIPTION_PROMPT", truncate_transcript(t), NoCount)
TitlesPrompt(t) == Prompt("TITLES_PROMPT", truncate_transcript(t), NoCount)
ChaptersPrompt(t, count) ==
    Prompt("CHAPTERS_PROMPT", Truncate(format_transcript_with_timestamps(t)), count)

\* every step left at the default temperature of client.generate
TemperatureDefault(s) == 7

\* the temperature each step passes to client.generate, in tenths
Temperature(s) ==
    CASE s = "description" -> 7
      [] s = "titles"      -> 8
      [] s = "chapters"    -> 5

StepPrompt(s, t, count) ==
    CASE s = "description" -> DescriptionPrompt(t)
      [] s = "titles"      -> TitlesPrompt(t)
      [] s = "chapters"    -> ChaptersPrompt(t, count)

GenerateCall(s, t, count) ==
    [step |-> s, temperature |-> Temperature(s), prompt |-> StepPrompt(s, t, count)]

(***************************************************************************)
(* Chapter.timestamp and Chapter.to_youtube_format, as characters.         *)
(***************************************************************************)
\* the hours field always shown
timestamp_with_hours(c) ==
    LET total_seconds == IntOf(c.start_time)
        hours   == total_seconds \div 3600
        minutes == (total_seconds % 3600) \div 60
        seconds == total_seconds % 60
    IN  Pad2(hours) \o <<":">> \o Pad2(minutes) \o <<":">> \o Pad2(seconds)

timestamp(c) ==
    LET total_seconds == IntOf(c.start_time)
        hours   == total_seconds \div 3600
        minutes == (total_seconds % 3600) \div 60
        seconds == total_seconds % 60
    IN  IF hours > 0
        THEN Pad2(hours) \o <<":">> \o Pad2(minutes) \o <<":">> \o Pad2(seconds)
        ELSE Pad2(minutes) \o <<":">> \o Pad2(seconds)

to_youtube_format(c) ==
    IF c.description # ""
    THEN timestamp(c) \o <<" ", c.title, " ", "-", " ", c.description>>
    ELSE timestamp(c) \o <<" ", c.title>>

(***************************************************************************)
(* transcript.json: Transcript.model_dump, json.dump(indent=2), json.load  *)
(* and Transcript.model_validate.  "\n" stands for a line break with its   *)
(* indentation.                                                            *)
(***************************************************************************)
Member(k, val) == [k |-> k, val |-> val]

\* a dump that keeps the segments and the duration only
model_dump_segments(t) ==
    JObj(<<Member("segments",
                  JArr([i \in 1..Len(t.segments) |->
                          JObj(<<Member("start", JNum(t.segments[i].start)),
                                 Member("end", JNum(t.segments[i].end)),
                                 Member("text", JStr(AtomOf(t.segments[i].text)))>>)])),
           Member("duration", JNum(t.duration))>>)

model_dump(t) ==
    JObj(<<Member("segments",
                  JArr([i \in 1..Len(t.segments) |->
                          JObj(<<Member("start", JNum(t.segments[i].start)),
                                 Member("end", JNum(t.segments[i].end)),
                                 Member("text", JStr(AtomOf(t.segments[i].text)))>>)])),
           Member("words",
                  JArr([i \in 1..Len(t.words) |->
                          JObj(<<Member("word", JStr(AtomOf(t.words[i].word))),
                                 Member("start", JNum(t.words[i].start)),
                                 Member("end", JNum(t.words[i].end)),
                                 Member("probability", JNum(t.words[i].probability))>>)])),
           Member("language", JStr(t.language)),
           Member("duration", JNum(t.duration))>>)

RECURSIVE json_dump(_)
json_dump(val) ==
    CASE val.t = "num"  -> <<NumTok(val.v)>>
      [] val.t = "str"  -> <<StrTok(val.v)>>
      [] val.t = "null" -> <<"null">>
      [] val.t = "arr"  ->
            IF Len(val.v) = 0 THEN <<"[", "]">>
            ELSE <<"[", "\n">>
                 \o Join([i \in 1..Len(val.v) |-> json_dump(val.v[i])], <<",", "\n">>)
                 \o <<"\n", "]">>
      [] val.t = "obj"  ->
            IF Len(val.v) = 0 THEN <<"{", "}">>
            ELSE <<"{", "\n">>
                 \o Join([i \in 1..Len(val.v) |->
                            <<StrTok(val.v[i].k), ":">> \o json_dump(val.v[i].val)],
                         <<",", "\n">>)
                 \o <<"\n", "}">>

\* validation of the fields of a model: a required field is present and of
\* its type, a field with a default is of its type when present
RequiredStr(obj, key) == HasKey(obj, key) /\ ValidStr(DictGet(obj, key, JNull))
RequiredFloat(obj, key) == HasKey(obj, key) /\ ValidFloat(DictGet(obj, key, JNull))

ValidSegment(v) ==
    /\ v.t = "obj"
    /\ RequiredFloat(v, "start")
    /\ RequiredFloat(v, "end")
    /\ RequiredStr(v, "text")
ValidWord(v) ==
    /\ v.t = "obj"
    /\ RequiredStr(v, "word")
    /\ RequiredFloat(v, "start")
    /\ RequiredFloat(v, "end")
    /\ RequiredFloat(v, "probability")
ValidSegments(v) == v.t = "arr" /\ \A i \in 1..Len(v.v) : ValidSegment(v.v[i])
ValidWords(v) == v.t = "arr" /\ \A i \in 1..Len(v.v) : ValidWord(v.v[i])

model_validate(data) ==
    IF /\ data.t = "obj"
       /\ HasKey(data, "segments") => ValidSegments(DictGet(data, "segments", JNull))
       /\ HasKey(data, "words") => ValidWords(DictGet(data, "words", JNull))
       /\ HasKey(data, "language") => ValidStr(DictGet(data, "language", JNull))
       /\ HasKey(data, "duration") => ValidFloat(DictGet(data, "duration", JNull))
    THEN LET segs == DictGet(data, "segments", JArr(<<>>)).v
             wds  == DictGet(data, "words", JArr(<<>>)).v
         IN  Built("ok",
               MkTranscript(
                 [i \in 1..Len(segs) |->
                    TranscriptSegment(DictGet(segs[i], "start", JNull).v,
                                      DictGet(segs[i], "end", JNull).v,
                                      CharsOf(DictGet(segs[i], "text", JNull).v))],
                 [i \in 1..Len(wds) |->
                    WordTimestamp(CharsOf(DictGet(wds[i], "word", JNull).v),
                                  DictGet(wds[i], "start", JNull).v,
                                  DictGet(wds[i], "end", JNull).v,
                                  DictGet(wds[i], "probability", JNull).v)],
                 DictGet(data, "language", JStr("en")).v,
                 DictGet(data, "duration", JNum(0)).v))
    ELSE Built("ValidationError", EmptyTranscript)

\* json.load followed by Transcript.model_validate
load_transcript(text) ==
    LET data == json_loads(text) IN
    IF data.ok THEN model_validate(data.val)
    ELSE Built("JSONDecodeError", EmptyTranscript)

(***************************************************************************)
(* The output directory and _save_outputs.  fs.files maps the names of the *)
(* files in the directory to their contents; fs.written lists the files    *)
(* this run has written, in order.                                         *)
(***************************************************************************)
ContentFiles == {"description.md", "titles.json", "chapters.txt"}
NoFiles == [n \in {} |-> <<>>]
Dir(exists, files) == [exists |-> exists, files |-> files, written |-> <<>>]
StaleFiles == [n \in {"description.md", "chapters.txt"} |-> <<"stale">>]
InitialDirs == {Dir(FALSE, NoFiles), Dir(TRUE, NoFiles), Dir(TRUE, StaleFiles)}

Mkdir(d) == [d EXCEPT !.exists = TRUE]
WriteFile(d, name, data) ==
    [d EXCEPT !.files = [n \in (DOMAIN d.files) \cup {name} |->
                            IF n = name THEN data ELSE d.files[n]],
              !.written = Append(@, name)]

NoContent == [present |-> FALSE, description |-> <<>>, titles |-> <<>>, chapters |-> <<>>]
GeneratedContent(d, t, c) ==
    [present |-> TRUE, description |-> d, titles |-> t, chapters |-> c]

FileOp(name, data) == [name |-> name, data |-> data]

ChapterLines(chs) ==
    IF Len(chs) = 0 THEN <<>>
    ELSE Join([i \in 1..Len(chs) |-> to_youtube_format(chs[i]) \o <<"\n">>], <<>>)

\* a writer without the emptiness tests
SaveOpsAlways(t, c) ==
    <<FileOp("transcript.json", json_dump(model_dump(t))),
      FileOp("transcript.txt", full_text(t))>>
    \o (IF c.present THEN <<FileOp("description.md", c.description)>> ELSE <<>>)
    \o (IF c.present THEN <<FileOp("titles.json", c.titles)>> ELSE <<>>)
    \o (IF c.present THEN <<FileOp("chapters.txt", ChapterLines(c.chapters))>> ELSE <<>>)

SaveOps(t, c) ==
    <<FileOp("transcript.json", json_dump(model_dump(t))),
      FileOp("transcript.txt", full_text(t))>>
    \o (IF c.present /\ Len(c.description) > 0
        THEN <<FileOp("description.md", c.description)>> ELSE <<>>)
    \o (IF c.present /\ Len(c.titles) > 0
        THEN <<FileOp("titles.json", c.titles)>> ELSE <<>>)
    \o (IF c.present /\ Len(c.chapters) > 0
        THEN <<FileOp("chapters.txt", ChapterLines(c.chapters))>> ELSE <<>>)

RECURSIVE ApplyOps(_, _, _)
ApplyOps(d, ops, n) ==
    IF n = 0 THEN d
    ELSE WriteFile(ApplyOps(d, ops, n - 1), ops[n].name, ops[n].data)

save_outputs(d, t, c) == ApplyOps(Mkdir(d), SaveOps(t, c), Len(SaveOps(t, c)))

(***************************************************************************)
(* Exceptions.                                                             *)
(***************************************************************************)
NoError == [kind |-> "none", step |-> "none", reason |-> "none", response |-> <<>>]
Raise(kind, s, reason, resp) ==
    [kind |-> kind, step |-> s, reason |-> reason, response |-> resp]

\* the message built from json_str in place of response
GenerationErrorExtracted(s, resp) ==
    Raise("GenerationError", s, "JSONDecodeError", extract_json(resp))

\* GenerationError(f"Failed to parse ... JSON: {e}\nResponse: {response}")
GenerationError(s, resp) == Raise("GenerationError", s, "JSONDecodeError", resp)

ParseError(s, kind, resp) ==
    IF kind = "GenerationError" THEN GenerationError(s, resp)
    ELSE Raise(kind, s, kind, <<>>)

\* the order of generate_all_content
StepOrder == <<"description", "titles", "chapters">>
StepIndex(s) == CHOOSE i \in 1..3 : StepOrder[i] = s
Range(q) == {q[i] : i \in 1..Len(q)}

\* stop_after_attempt(3)
MaxAttempts == 3
ApiFailures == {"APIConnectionError", "RateLimitError", "APIStatusError", "Empty response"}

(***************************************************************************)
(* The texts the collaborator may return.  An object is rendered from its  *)
(* members <<key, value lexeme>>, an array from its objects.               *)
(***************************************************************************)
RenderObj(members) ==
    <<"{">> \o Join([i \in 1..Len(members) |->
                       <<StrTok(members[i][1]), ":", members[i][2]>>], <<",">>)
    \o <<"}">>
RenderArr(objs) ==
    <<"[">> \o Join([i \in 1..Len(objs) |-> RenderObj(objs[i])], <<",", "\n">>)
    \o <<"]">>

\* every token sequence of length at most n
RECURSIVE SeqsUpTo(_, _)
SeqsUpTo(S, n) ==
    IF n = 0 THEN {<<>>}
    ELSE LET shorter == SeqsUpTo(S, n - 1) IN
         shorter \cup {Append(q, x) : q \in shorter, x \in S}

\* the lexemes of the exhaustive short responses
ShortTokens == Punct \cup {"\n", "Here", "null", NumTok(7), StrTok("A"), StrTok("title")}
ShortResponses == SeqsUpTo(ShortTokens, MaxTokLen)

\* arrays of complete chapter objects, start times in every order, titles
\* telling equal start times apart
ChapterObjs ==
    {<<<<"start_time", NumTok(n)>>, <<"title", StrTok(t)>>>> :
        n \in StartTimes, t \in {"A", "B"}}
OrderedResponses ==
    {RenderArr(objs) : objs \in SeqsUpTo(ChapterObjs, MaxChapters)}

\* one-object arrays over every selection of members: missing, unknown,
\* duplicate and ill-typed fields
MemberPool ==
    << <<"start_time", NumTok(5)>>, <<"title", StrTok("A")>>,
       <<"description", StrTok("d")>>, <<"thumbnail_text", StrTok("B")>>,
       <<"reasoning", StrTok("d")>>, <<"extra", NumTok(7)>>,
       <<"title", NumTok(7)>>, <<"start_time", StrTok("A")>>,
       <<"start_time", NumTok(20)>> >>
RECURSIVE Select(_, _, _)
Select(pool, S, i) ==
    IF i > Len(pool) THEN <<>>
    ELSE (IF i \in S THEN <<pool[i]>> ELSE <<>>) \o Select(pool, S, i + 1)
FieldObjs == {Select(MemberPool, S, 1) : S \in SUBSET (1..Len(MemberPool))}

\* prose around the array; "[7]" and "]" are prose that itself holds brackets
Prefixes == {<<>>, <<"Here", "\n">>, <<"Here", "[", NumTok(7), "]", "\n">>}
Suffixes == {<<>>, <<"\n", "Here">>, <<"\n", "Here", "]">>}
FieldResponses ==
    {pre \o RenderArr(<<o>>) \o suf : pre \in Prefixes, suf \in Suffixes, o \in FieldObjs}

\* a response cut off before the closing bracket
CutResponses == {SubSeq(r, 1, Len(r) - 1) : r \in {RenderArr(<<o>>) : o \in ChapterObjs}}

\* arrays of complete title objects, equal ones included, and the ten titles
\* the prompt asks for, inside prose
TitleObjs ==
    {<<<<"title", StrTok(t)>>, <<"thumbnail_text", StrTok(h)>>, <<"reasoning", StrTok("d")>>>> :
        t \in {"A", "B"}, h \in {"A", "B"}}
TenTitles ==
    [i \in 1..10 |->
        <<<<"title", StrTok(IF i \in {2, 3, 7} THEN "B" ELSE "A")>>,
          <<"thumbnail_text", StrTok(IF i % 2 = 0 THEN "A" ELSE "B")>>,
          <<"reasoning", StrTok("d")>>>>]
TitleResponses ==
    {RenderArr(objs) : objs \in SeqsUpTo(TitleObjs, MaxTitles)}
    \cup {<<"Here", "\n">> \o RenderArr(TenTitles)}

ParseResponses ==
    ShortResponses \cup OrderedResponses \cup FieldResponses \cup CutResponses

\* the responses of a whole run: a few of each kind
Obj(n, t) == <<<<"start_time", NumTok(n)>>, <<"title", StrTok(t)>>, <<"description", StrTok("d")>>>>
RunDescriptions == {<<"Here">>, <<"\n", "Here", "\n">>, <<"\n">>}
RunArrays ==
    { <<"Here", "\n">> \o RenderArr(<<Obj(20, "A"), Obj(5, "B")>>) \o <<"\n", "Here">>,
      RenderArr(<<Obj(-10, "A")>>),
      <<"[", "]">>,
      <<"Here">>,
      <<"[", NumTok(7), "]">>,
      <<"{", "}">> }
RunResponses(s) == IF s = "description" THEN RunDescriptions ELSE RunArrays

\* what the transcript file of the generate command may hold
TranscriptFiles == {"missing", "malformed", "invalid"}
ChapterCounts == {3, 10}

(***************************************************************************)
(* The run of a command.                                                   *)
(***************************************************************************)
Blank ==
    /\ step = "none"
    /\ transcript = EmptyTranscript
    /\ calls = <<>>
    /\ outstanding = 0
    /\ attempt = 0
    /\ response = <<>>
    /\ description = <<>>
    /\ titles = <<>>
    /\ chapters = <<>>
    /\ content = NoContent
    /\ error = NoError
    /\ exit_code = -1
    /\ reported = "none"
    /\ api_attempts = 0
    /\ outcome = "none"

Init ==
    /\ cmd \in {"process", "transcribe", "generate"}
    /\ api_key \in BOOLEAN
    /\ chapter_count \in ChapterCounts
    /\ fs \in InitialDirs
    /\ pc = "start"
    /\ Blank

\* process, generate: the API key is resolved first; transcribe needs none
Start ==
    /\ pc = "start"
    /\ IF cmd # "transcribe" /\ ~api_key
       THEN /\ pc' = "exit"
            /\ exit_code' = 1
            /\ reported' = "API key required"
       ELSE /\ pc' = IF cmd = "generate" THEN "load" ELSE "transcribe"
            /\ UNCHANGED <<exit_code, reported>>
    /\ UNCHANGED <<cmd, api_key, step, transcript, calls, outstanding, attempt,
                   response, description, titles, chapters, content, error,
                   chapter_count, fs>>
    /\ UNCHANGED <<api_attempts, outcome>>

\* the transcript files written as soon as the transcription is done
TranscribeAndSave ==
    /\ pc = "transcribe"
    /\ \E t \in Transcripts :
         /\ transcript' = t
         /\ fs' = save_outputs(fs, t, NoContent)
    /\ IF cmd = "process"
       THEN pc' = "call" /\ step' = "description"
       ELSE pc' = "save" /\ UNCHANGED step
    /\ UNCHANGED <<cmd, api_key, calls, outstanding, attempt, response,
                   description, titles, chapters, content, error, exit_code,
                   reported, chapter_count, api_attempts, outcome>>

\* transcriber.transcribe returns a Transcript
Transcribe ==
    /\ pc = "transcribe"
    /\ \E t \in Transcripts : transcript' = t
    /\ IF cmd = "process"
       THEN pc' = "call" /\ step' = "description"
       ELSE pc' = "save" /\ UNCHANGED step
    /\ UNCHANGED <<cmd, api_key, calls, outstanding, attempt, response,
                   description, titles, chapters, content, error, exit_code,
                   reported, chapter_count, fs>>
    /\ UNCHANGED <<api_attempts, outcome>>

\* transcriber.transcribe raises TranscriptionError
TranscribeFail ==
    /\ pc = "transcribe"
    /\ error' = Raise("TranscriptionError", "none", "TranscriptionError", <<>>)
    /\ pc' = "raised"
    /\ UNCHANGED <<cmd, api_key, step, transcript, calls, outstanding, attempt,
                   response, description, titles, chapters, content, exit_code,
                   reported, chapter_count, fs>>
    /\ UNCHANGED <<api_attempts, outcome>>

\* generate: the transcript file is read and validated
LoadTranscript ==
    /\ pc = "load"
    /\ \E t \in Transcripts :
         LET r == load_transcript(json_dump(model_dump(t))) IN
         r.kind = "ok" /\ transcript' = r.val
    /\ pc' = "call"
    /\ step' = "description"
    /\ UNCHANGED <<cmd, api_key, calls, outstanding, attempt, response,
                   description, titles, chapters, content, error, exit_code,
                   reported, chapter_count, fs>>
    /\ UNCHANGED <<api_attempts, outcome>>

LoadTranscriptFail ==
    /\ pc = "load"
    /\ \E f \in TranscriptFiles :
         CASE f = "missing" ->
                /\ pc' = "exit"
                /\ exit_code' = 1
                /\ reported' = "Transcript file not found"
                /\ UNCHANGED error
           [] f = "malformed" ->
                /\ pc' = "raised"
                /\ error' = Raise("JSONDecodeError", "none", "JSONDecodeError", <<>>)
                /\ UNCHANGED <<exit_code, reported>>
           [] f = "invalid" ->
                /\ pc' = "raised"
                /\ error' = Raise("ValidationError", "none", "ValidationError", <<>>)
                /\ UNCHANGED <<exit_code, reported>>
    /\ UNCHANGED <<cmd, api_key, step, transcript, calls, outstanding, attempt,
                   response, description, titles, chapters, content,
                   chapter_count, fs>>
    /\ UNCHANGED <<api_attempts, outcome>>

\* a generation step builds its prompt and calls client.generate: first attempt
ClientGenerate ==
    /\ pc = "call"
    /\ calls' = Append(calls, GenerateCall(step, transcript, chapter_count))
    /\ attempt' = 1
    /\ outcome' = "none"
    /\ api_attempts' = api_attempts + 1
    /\ outstanding' = outstanding + 1
    /\ pc' = "wait"
    /\ UNCHANGED <<cmd, api_key, step, transcript, response, description, titles,
                   chapters, content, error, exit_code, reported, chapter_count, fs>>

\* the attempt succeeds: client.generate returns the text
ApiReturn ==
    /\ pc = "wait"
    /\ \E r \in RunResponses(step) : response' = r
    /\ outstanding' = outstanding - 1
    /\ pc' = "parse"
    /\ outcome' = "ok"
    /\ UNCHANGED api_attempts
    /\ UNCHANGED <<cmd, api_key, step, transcript, calls, attempt, description,
                   titles, chapters, content, error, exit_code, reported,
                   chapter_count, fs>>

\* the decorator without reraise=True: tenacity raises its own RetryError
ApiFailRetryError ==
    /\ pc = "wait"
    /\ outstanding' = outstanding - 1
    /\ \E f \in ApiFailures :
         /\ outcome' = f
         /\ IF attempt < MaxAttempts
            THEN pc' = "backoff" /\ UNCHANGED error
            ELSE pc' = "raised" /\ error' = Raise("RetryError", step, "RetryError", <<>>)
    /\ UNCHANGED <<cmd, api_key, step, transcript, calls, attempt, response,
                   description, titles, chapters, content, exit_code, reported,
                   chapter_count, fs, api_attempts>>

\* the attempt fails: tenacity retries, or re-raises after the last attempt
ApiFail ==
    /\ pc = "wait"
    /\ outstanding' = outstanding - 1
    /\ \E f \in ApiFailures :
         /\ outcome' = f
         /\ IF attempt < MaxAttempts
            THEN pc' = "backoff" /\ UNCHANGED error
            ELSE pc' = "raised" /\ error' = Raise("LLMError", step, f, <<>>)
    /\ UNCHANGED <<cmd, api_key, step, transcript, calls, attempt, response,
                   description, titles, chapters, content, exit_code, reported,
                   chapter_count, fs, api_attempts>>

\* after the wait the request is made again
Retry ==
    /\ pc = "backoff"
    /\ attempt' = attempt + 1
    /\ api_attempts' = api_attempts + 1
    /\ outstanding' = outstanding + 1
    /\ UNCHANGED outcome
    /\ pc' = "wait"
    /\ UNCHANGED <<cmd, api_key, step, transcript, calls, response, description,
                   titles, chapters, content, error, exit_code, reported,
                   chapter_count, fs>>

\* generate_description returns description.strip()
ParseDescription ==
    /\ pc = "parse" /\ step = "description"
    /\ description' = Strip(response)
    /\ pc' = "returned"
    /\ UNCHANGED <<cmd, api_key, step, transcript, calls, outstanding, attempt,
                   response, titles, chapters, content, error, exit_code,
                   reported, chapter_count, fs>>
    /\ UNCHANGED <<api_attempts, outcome>>

\* a parse failure that is recorded but does not stop generate_all_content
ParseTitlesContinue ==
    /\ pc = "parse" /\ step = "titles"
    /\ LET r == ParseTitlesResponse(response) IN
       IF r.kind = "ok"
       THEN titles' = r.val /\ UNCHANGED error
       ELSE error' = ParseError(step, r.kind, response) /\ UNCHANGED titles
    /\ pc' = "returned"
    /\ UNCHANGED <<cmd, api_key, step, transcript, calls, outstanding, attempt,
                   response, description, chapters, content, exit_code,
                   reported, chapter_count, fs>>
    /\ UNCHANGED <<api_attempts, outcome>>

ParseTitles ==
    /\ pc = "parse" /\ step = "titles"
    /\ LET r == ParseTitlesResponse(response) IN
       IF r.kind = "ok"
       THEN titles' = r.val /\ pc' = "returned" /\ UNCHANGED error
       ELSE error' = ParseError(step, r.kind, response) /\ pc' = "raised"
            /\ UNCHANGED titles
    /\ UNCHANGED <<cmd, api_key, step, transcript, calls, outstanding, attempt,
                   response, description, chapters, content, exit_code,
                   reported, chapter_count, fs>>
    /\ UNCHANGED <<api_attempts, outcome>>

ParseChapters ==
    /\ pc = "parse" /\ step = "chapters"
    /\ LET r == ParseChaptersResponse(response) IN
       IF r.kind = "ok"
       THEN chapters' = r.val /\ pc' = "returned" /\ UNCHANGED error
       ELSE error' = ParseError(step, r.kind, response) /\ pc' = "raised"
            /\ UNCHANGED chapters
    /\ UNCHANGED <<cmd, api_key, step, transcript, calls, outstanding, attempt,
                   response, description, titles, content, exit_code,
                   reported, chapter_count, fs>>
    /\ UNCHANGED <<api_attempts, outcome>>

\* generate_all_content goes on to the next step, or assembles the content
NextStep ==
    /\ pc = "returned"
    /\ CASE step = "description" ->
              step' = "titles" /\ pc' = "call" /\ UNCHANGED content
         [] step = "titles" ->
              step' = "chapters" /\ pc' = "call" /\ UNCHANGED content
         [] step = "chapters" ->
              /\ content' = GeneratedContent(description, titles, chapters)
              /\ pc' = "save"
              /\ UNCHANGED step
    /\ UNCHANGED <<cmd, api_key, transcript, calls, outstanding, attempt,
                   response, description, titles, chapters, error, exit_code,
                   reported, chapter_count, fs>>
    /\ UNCHANGED <<api_attempts, outcome>>

\* _save_outputs runs to its end; the command reports Done
SaveOutputs ==
    /\ pc = "save"
    /\ fs' = save_outputs(fs, transcript, content)
    /\ pc' = "done"
    /\ exit_code' = 0
    /\ reported' = "Done"
    /\ UNCHANGED <<cmd, api_key, step, transcript, calls, outstanding, attempt,
                   response, description, titles, chapters, content, error,
                   chapter_count>>
    /\ UNCHANGED <<api_attempts, outcome>>

\* a write of _save_outputs fails (OSError): the earlier files stay written
SaveOutputsFail ==
    /\ pc = "save"
    /\ \E n \in 0..(Len(SaveOps(transcript, content)) - 1) :
         fs' = ApplyOps(Mkdir(fs), SaveOps(transcript, content), n)
    /\ error' = Raise("OSError", "none", "OSError", <<>>)
    /\ pc' = "raised"
    /\ UNCHANGED <<cmd, api_key, step, transcript, calls, outstanding, attempt,
                   response, description, titles, chapters, content, exit_code,
                   reported, chapter_count>>
    /\ UNCHANGED <<api_attempts, outcome>>

\* the except clauses of the command; anything else leaves as a traceback
Handled(c, kind) ==
    \/ kind = "TranscriptionError" /\ c \in {"process", "transcribe"}
    \/ kind = "LLMError" /\ c \in {"process", "generate"}
    \/ kind = "JSONDecodeError" /\ c = "generate"

Report(kind) ==
    CASE kind = "TranscriptionError" -> "Transcription error"
      [] kind = "LLMError"           -> "LLM error"
      [] kind = "JSONDecodeError"    -> "Error parsing transcript"

Propagate ==
    /\ pc = "raised"
    /\ reported' = IF Handled(cmd, error.kind) THEN Report(error.kind) ELSE "traceback"
    /\ exit_code' = 1
    /\ pc' = "exit"
    /\ UNCHANGED <<cmd, api_key, step, transcript, calls, outstanding, attempt,
                   response, description, titles, chapters, content, error,
                   chapter_count, fs>>
    /\ UNCHANGED <<api_attempts, outcome>>

Next ==
    \/ Start
    \/ Transcribe
    \/ TranscribeFail
    \/ LoadTranscript
    \/ LoadTranscriptFail
    \/ ClientGenerate
    \/ ApiReturn
    \/ ApiFail
    \/ Retry
    \/ ParseDescription
    \/ ParseTitles
    \/ ParseChapters
    \/ NextStep
    \/ SaveOutputs
    \/ SaveOutputsFail
    \/ Propagate

Spec == Init /\ [][Next]_vars

(***************************************************************************)
(* The response parser alone, applied to every response of ParseResponses. *)
(***************************************************************************)
ParseInit ==
    /\ cmd = "process"
    /\ api_key = TRUE
    /\ chapter_count = 10
    /\ fs = Dir(FALSE, NoFiles)
    /\ pc = "parse"
    /\ step \in {"titles", "chapters"}
    /\ response \in IF step = "titles" THEN ParseResponses \cup TitleResponses
                    ELSE ParseResponses
    /\ transcript \in IF response \in TitleResponses THEN Transcripts ELSE {EmptyTranscript}
    /\ calls = <<>>
    /\ outstanding = 0
    /\ attempt = 0
    /\ description = <<>>
    /\ titles = <<>>
    /\ chapters = <<>>
    /\ content = NoContent
    /\ error = NoError
    /\ exit_code = -1
    /\ reported = "none"
    /\ api_attempts = Len(calls)
    /\ outcome = IF Len(calls) > 0 THEN "ok" ELSE "none"

ParseNext == ParseTitles \/ ParseChapters

ParseSpec == ParseInit /\ [][ParseNext]_vars

(***************************************************************************)
(* The writer alone: _save_outputs applied to the transcript and content   *)
(* of a command that has reached it.  The chapter lists are those          *)
(* generate_chapters returns: sorted, the first one not after 0.           *)
(***************************************************************************)
MaxHours == 1

\* start times in tenths of a second: hours, minutes, seconds and fraction
\* on both sides of every field boundary, some below zero, one of 100 hours
TimeSamples ==
    {h * 36000 + m * 600 + s * 10 + f :
        h \in 0..MaxHours, m \in {0, 1, 2, 59}, s \in {0, 5, 59}, f \in {0, 9}}
    \cup {-5, -50, -36005, 3600000}

WriterChapters ==
    {NormalizeChapters(<<Chapter(0, "A", ""), Chapter(t, "B", d)>>) :
        t \in TimeSamples, d \in {"", "d"}}

WriterContents ==
    {NoContent} \cup {GeneratedContent(<<"Here">>, <<>>, chs) : chs \in WriterChapters}

WriterInit ==
    /\ api_key = TRUE
    /\ chapter_count = 10
    /\ fs = Dir(FALSE, NoFiles)
    /\ pc = "save"
    /\ transcript \in Transcripts \cup WordTranscripts
    /\ content \in WriterContents
    /\ cmd = IF content.present THEN "process" ELSE "transcribe"
    /\ step = IF content.present THEN "chapters" ELSE "none"
    /\ calls = IF content.present
               THEN [i \in 1..3 |-> GenerateCall(StepOrder[i], transcript, chapter_count)]
               ELSE <<>>
    /\ outstanding = 0
    /\ attempt = IF content.present THEN 1 ELSE 0
    /\ response = <<>>
    /\ description = content.description
    /\ titles = content.titles
    /\ chapters = content.chapters
    /\ error = NoError
    /\ exit_code = -1
    /\ reported = "none"
    /\ api_attempts = Len(calls)
    /\ outcome = IF Len(calls) > 0 THEN "ok" ELSE "none"

\* a later generate command is given the transcript.json just written
LoadSaved ==
    /\ pc = "done"
    /\ "transcript.json" \in Range(fs.written)
    /\ cmd' = "generate"
    /\ LET r == load_transcript(fs.files["transcript.json"]) IN
       IF r.kind = "ok"
       THEN /\ transcript' = r.val
            /\ pc' = "call"
            /\ step' = "description"
            /\ error' = NoError
       ELSE /\ error' = Raise(r.kind, "none", r.kind, <<>>)
            /\ pc' = "raised"
            /\ step' = "none"
            /\ UNCHANGED transcript
    /\ calls' = <<>>
    /\ outstanding' = 0
    /\ attempt' = 0
    /\ response' = <<>>
    /\ description' = <<>>
    /\ titles' = <<>>
    /\ chapters' = <<>>
    /\ content' = NoContent
    /\ exit_code' = -1
    /\ reported' = "none"
    /\ api_attempts' = 0
    /\ outcome' = "none"
    /\ UNCHANGED <<api_key, chapter_count, fs>>

WriterNext == SaveOutputs \/ SaveOutputsFail \/ LoadSaved

WriterSpec == WriterInit /\ [][WriterNext]_vars

(***************************************************************************)
(* The prompt construction alone: a generation step builds its prompt for  *)
(* transcripts whose renderings are around max_chars characters long.      *)
(***************************************************************************)
MaxOver == 2

LongText(n) == [i \in 1..n |-> "a"]

\* one segment of max_chars - 10 to max_chars + MaxOver characters, and two
\* segments that the join brings to max_chars - 1, max_chars, max_chars + 1
LongTranscripts ==
    {MkTranscript(<<TranscriptSegment(0, 600, LongText(n))>>, <<>>, "en", 600) :
        n \in (max_chars - 10)..(max_chars + MaxOver)}
    \cup {MkTranscript(<<TranscriptSegment(0, 300, LongText(n)),
                         TranscriptSegment(300, 600, <<"b">>)>>, <<>>, "en", 600) :
            n \in (max_chars - 3)..(max_chars - 1)}

PromptInit ==
    /\ cmd \in {"process", "generate"}
    /\ api_key = TRUE
    /\ chapter_count = 10
    /\ fs = Dir(FALSE, NoFiles)
    /\ pc = "call"
    /\ step \in Range(StepOrder)
    /\ transcript \in Transcripts \cup LongTranscripts
    /\ calls = [i \in 1..(StepIndex(step) - 1) |->
                  GenerateCall(StepOrder[i], transcript, chapter_count)]
    /\ outstanding = 0
    /\ attempt = IF step = "description" THEN 0 ELSE 1
    /\ response = IF step = "description" THEN <<>> ELSE <<"Here">>
    /\ description = IF step = "description" THEN <<>> ELSE <<"Here">>
    /\ titles = <<>>
    /\ chapters = <<>>
    /\ content = NoContent
    /\ error = NoError
    /\ exit_code = -1
    /\ reported = "none"
    /\ api_attempts = Len(calls)
    /\ outcome = IF Len(calls) > 0 THEN "ok" ELSE "none"

PromptNext == ClientGenerate

PromptSpec == PromptInit /\ [][PromptNext]_vars

(***************************************************************************)
(* Properties.                                                             *)
(***************************************************************************)
AfterParse(s) == pc \in {"returned", "raised"} /\ step = s
Returned(s) == pc = "returned" /\ step = s
Parsed(text) == json_loads(extract_json(text))

\* C1: the generate calls are description (0.7), titles (0.8), chapters (0.5,
\* timestamp-annotated prompt, requested count), in this order; a step's call
\* is made only when the steps before it have returned, at most one request is
\* outstanding, and a run that reaches the writer has made exactly these three
\* calls.
C1_CallOrder ==
    /\ outstanding \in {0, 1}
    /\ Len(calls) <= 3
    /\ \A i \in 1..Len(calls) :
         /\ calls[i].step = StepOrder[i]
         /\ calls[i].temperature = <<7, 8, 5>>[i]
         /\ calls[i].prompt.template =
              <<"DESCRIPTION_PROMPT", "TITLES_PROMPT", "CHAPTERS_PROMPT">>[i]
         /\ i < 3 => /\ calls[i].prompt.transcript = Truncate(full_text(transcript))
                     /\ calls[i].prompt.chapter_count = NoCount
         /\ i = 3 => /\ calls[i].prompt.transcript =
                          Truncate(format_transcript_with_timestamps(transcript))
                     /\ calls[i].prompt.chapter_count = chapter_count
    /\ outstanding = 1 => pc = "wait"
    /\ pc = "call" => Len(calls) = StepIndex(step) - 1
    /\ pc \in {"wait", "backoff", "parse", "returned"} => Len(calls) = StepIndex(step)
    /\ (step = "titles" /\ pc \in {"call", "wait", "backoff"}) =>
          description = Strip(response)
    /\ (step = "chapters" /\ pc \in {"call", "wait", "backoff"}) =>
          /\ ParseTitlesResponse(response).kind = "ok"
          /\ titles = ParseTitlesResponse(response).val
    /\ (content.present => Len(calls) = 3)
    /\ (pc = "done" /\ cmd # "transcribe" => content.present)

C1_Witness ==
    /\ pc = "done"
    /\ cmd = "process"
    /\ Len(calls) = 3
    /\ calls[3].prompt.chapter_count = 3
    /\ Len(calls[3].prompt.transcript) > 0

\* C2: once a generation step has failed, no later step is called, no
\* GeneratedContent exists, the results of the later steps are unset and the
\* one error in hand is that of the failing step.
C2_FailurePropagates ==
    error.step \in Range(StepOrder) =>
        /\ pc \in {"raised", "exit"}
        /\ step = error.step
        /\ Len(calls) = StepIndex(error.step)
        /\ calls[Len(calls)].step = error.step
        /\ outstanding = 0
        /\ content = NoContent
        /\ fs.written = <<>>
        /\ error.step \in {"description", "titles"} => chapters = <<>>
        /\ error.step = "description" => titles = <<>>

C2_Witness ==
    /\ pc = "exit"
    /\ error.kind = "GenerationError"
    /\ error.step = "titles"
    /\ Len(calls) = 2
    /\ Len(description) > 0

\* C3: the chapters generate_chapters returns are non-decreasing by
\* start_time and the first one starts at exactly 0.
C3_SortedFromZero ==
    Returned("chapters") =>
        /\ \A i \in 1..(Len(chapters) - 1) :
             chapters[i].start_time <= chapters[i + 1].start_time
        /\ Len(chapters) > 0 => chapters[1].start_time = 0

\* C4: generate_titles and generate_chapters either return or fail with
\* GenerationError, whatever the response text.
C4_OnlyGenerationError ==
    (pc = "raised" /\ step \in {"titles", "chapters"}) =>
        error.kind = "GenerationError"

\* C5: when the extracted text is not valid JSON, generate_titles and
\* generate_chapters raise a GenerationError that carries the parse failure
\* and the full raw response; they return nothing.
C5_MalformedIsReported ==
    \A s \in {"titles", "chapters"} :
        (AfterParse(s) /\ ~Parsed(response).ok) =>
            /\ pc = "raised"
            /\ error.kind = "GenerationError"
            /\ error.step = s
            /\ error.reason = "JSONDecodeError"
            /\ error.response = response
            /\ titles = <<>> /\ chapters = <<>>

C5_Witness ==
    /\ pc = "raised"
    /\ step = "chapters"
    /\ error.kind = "GenerationError"
    /\ error.response = response
    /\ Len(extract_json(response)) < Len(response)
    /\ Len(response) > MaxTokLen

\* C6: _extract_json returns the span from the first "[" to the last "]" of
\* the response when a "[" is followed later by a "]", and the whole response
\* otherwise; an array between bracket-free prose is recovered exactly.
C6_WidestSpan ==
    LET e == extract_json(response)
        n == Len(response)
    IN  /\ IF \E i \in 1..n : \E j \in (i + 1)..n :
                  response[i] = "[" /\ response[j] = "]"
           THEN \E a \in 1..n : \E b \in (a + 1)..n :
                  /\ response[a] = "[" /\ response[b] = "]"
                  /\ \A k \in 1..(a - 1) : response[k] # "["
                  /\ \A k \in (b + 1)..n : response[k] # "]"
                  /\ e = SubSeq(response, a, b)
           ELSE e = response
        /\ \A a \in 1..n : \A b \in a..n :
             ( /\ response[a] = "[" /\ response[b] = "]"
               /\ \A k \in (1..(a - 1)) \cup ((b + 1)..n) :
                    response[k] \notin {"[", "]"} )
             => e = SubSeq(response, a, b)

C6_Witness ==
    /\ Returned("titles")
    /\ Len(response) > MaxTokLen
    /\ response[1] = "Here"
    /\ response[Len(response)] = "Here"
    /\ Len(titles) = 1
    /\ titles[1].title = "A"

\* C7: for an array of objects whose expected fields, where present, are of
\* the expected type, generate_titles and generate_chapters return one record
\* per object: a missing title, thumbnail_text, reasoning or description is
\* the empty string, a missing start_time is 0, unknown fields are ignored.
ExpectedStr(s) ==
    IF s = "titles" THEN {"title", "thumbnail_text", "reasoning"}
    ELSE {"title", "description"}
WellTyped(o, s) ==
    /\ o.t = "obj"
    /\ \A i \in 1..Len(o.v) :
         /\ o.v[i].k \in ExpectedStr(s) => o.v[i].val.t = "str"
         /\ (s = "chapters" /\ o.v[i].k = "start_time") => o.v[i].val.t = "num"
FieldIs(o, key, default, x) ==
    IF \E i \in 1..Len(o.v) : o.v[i].k = key
    THEN \E i \in 1..Len(o.v) : o.v[i].k = key /\ o.v[i].val.v = x
    ELSE x = default
ArrayOfObjects(s) ==
    /\ Parsed(response).ok
    /\ Parsed(response).val.t = "arr"
    /\ \A i \in 1..Len(Parsed(response).val.v) : WellTyped(Parsed(response).val.v[i], s)

C7_Permissive ==
    /\ (AfterParse("titles") /\ ArrayOfObjects("titles")) =>
          LET a == Parsed(response).val.v IN
          /\ pc = "returned"
          /\ Len(titles) = Len(a)
          /\ \A i \in 1..Len(a) :
               /\ FieldIs(a[i], "title", "", titles[i].title)
               /\ FieldIs(a[i], "thumbnail_text", "", titles[i].thumbnail_text)
               /\ FieldIs(a[i], "reasoning", "", titles[i].reasoning)
    /\ (AfterParse("chapters") /\ ArrayOfObjects("chapters")) =>
          LET a == Parsed(response).val.v IN
          /\ pc = "returned"
          /\ Len(chapters) = Len(a)
          /\ \A j \in 1..Len(a) : \E i \in 1..Len(a) :
               /\ FieldIs(a[i], "title", "", chapters[j].title)
               /\ FieldIs(a[i], "description", "", chapters[j].description)
               /\ \/ FieldIs(a[i], "start_time", 0, chapters[j].start_time)
                  \/ j = 1 /\ chapters[j].start_time = 0

C7_Witness ==
    /\ Returned("chapters")
    /\ StrTok("extra") \in Range(response)
    /\ StrTok("description") \in Range(response)
    /\ StrTok("title") \notin Range(response)
    /\ StrTok("start_time") \notin Range(response)
    /\ chapters = <<Chapter(0, "", "d")>>

\* C8: sorting and clamping the chapters generate_chapters returned, once
\* more, leaves them as they are.
C8_Idempotent ==
    Returned("chapters") => ClampFirst(SortChapters(chapters)) = chapters

C8_Witness ==
    /\ Returned("chapters")
    /\ Len(chapters) = MaxChapters
    /\ chapters[1].start_time = 0
    /\ chapters[2].start_time = 5
    /\ Range(response) \cap {NumTok(0), NumTok(-10)} = {}
    /\ response[5] = NumTok(20)

\* C9: the returned chapters are the parsed ones in a stable ascending order
\* of start_time, with titles and descriptions as parsed and start times as
\* parsed except that a first start time above 0 is rewritten to 0.
ParsedChapters == BuildChapters(Parsed(response).val).val
C9_StableFrame ==
    Returned("chapters") =>
        LET before == ParsedChapters
            n      == Len(before)
        IN  /\ Len(chapters) = n
            /\ \E p \in [1..n -> 1..n] :
                 /\ \A i, j \in 1..n : i # j => p[i] # p[j]
                 /\ \A i \in 1..n :
                      /\ chapters[i].title = before[p[i]].title
                      /\ chapters[i].description = before[p[i]].description
                      /\ \/ chapters[i].start_time = before[p[i]].start_time
                         \/ /\ i = 1
                            /\ before[p[i]].start_time > 0
                            /\ chapters[i].start_time = 0
                 /\ \A i, j \in 1..n : i < j =>
                      /\ before[p[i]].start_time <= before[p[j]].start_time
                      /\ before[p[i]].start_time = before[p[j]].start_time
                           => p[i] < p[j]

C9_Witness ==
    /\ Returned("chapters")
    /\ chapters = <<Chapter(0, "A", ""), Chapter(20, "B", ""), Chapter(20, "A", "")>>
    /\ ParsedChapters = <<Chapter(20, "B", ""), Chapter(20, "A", ""), Chapter(5, "A", "")>>

\* C10 as stated: after _save_outputs the directory holds transcript.json and
\* transcript.txt and, whenever a GeneratedContent is present, description.md,
\* titles.json and chapters.txt; with no content none of the three is written.
C10_AllContentFiles ==
    pc = "done" =>
        /\ fs.exists
        /\ {"transcript.json", "transcript.txt"} \subseteq DOMAIN fs.files
        /\ content.present => ContentFiles \subseteq DOMAIN fs.files
        /\ ~content.present => Range(fs.written) \cap ContentFiles = {}

\* the lines of a text, each ended by "\n"
RECURSIVE SplitLines(_, _)
SplitLines(text, line) ==
    IF Len(text) = 0 THEN <<>>
    ELSE IF Head(text) = "\n" THEN <<line>> \o SplitLines(Tail(text), <<>>)
    ELSE SplitLines(Tail(text), Append(line, Head(text)))

\* C10, amended: after _save_outputs the directory exists and transcript.json
\* and transcript.txt are written; description.md, titles.json and chapters.txt
\* are written exactly when a GeneratedContent is present and its description,
\* title list or chapter list, respectively, is not empty; chapters.txt then
\* has one line per chapter, in the order of the chapter list.
C10_NonEmptyContentFiles ==
    pc = "done" =>
        LET w == Range(fs.written) IN
        /\ fs.exists
        /\ {"transcript.json", "transcript.txt"} \subseteq w
        /\ w \subseteq DOMAIN fs.files
        /\ "description.md" \in w <=> (content.present /\ content.description # <<>>)
        /\ "titles.json" \in w <=> (content.present /\ content.titles # <<>>)
        /\ "chapters.txt" \in w <=> (content.present /\ content.chapters # <<>>)
        /\ "chapters.txt" \in w =>
             LET lines == SplitLines(fs.files["chapters.txt"], <<>>) IN
             /\ Len(lines) = Len(content.chapters)
             /\ \A i \in 1..Len(lines) :
                  /\ lines[i][Len(timestamp(content.chapters[i])) + 2]
                       = content.chapters[i].title
                  /\ SubSeq(lines[i], 1, Len(timestamp(content.chapters[i])))
                       = timestamp(content.chapters[i])
        /\ "titles.json" \in w => fs.files["titles.json"] = content.titles
        /\ "description.md" \in w => fs.files["description.md"] = content.description

C10_Witness ==
    /\ pc = "done"
    /\ content.present
    /\ content.chapters = <<>>
    /\ Len(content.titles) = 2
    /\ content.description = <<>>
    /\ Range(fs.written) = {"transcript.json", "transcript.txt", "titles.json"}
    /\ "chapters.txt" \in DOMAIN fs.files
    /\ fs.files["chapters.txt"] = <<"stale">>

\* reading a written chapter line back: the whole seconds of a start time,
\* the number a digit sequence spells
Trunc(x) == IF x >= 0 THEN (x - (x % 10)) \div 10 ELSE -(((-x) - ((-x) % 10)) \div 10)
DigitChars == {ToString(d) : d \in 0..9}
DigitVal(ch) == CHOOSE d \in 0..9 : ToString(d) = ch
RECURSIVE NumOf(_)
NumOf(chars) ==
    IF Len(chars) = 0 THEN 0
    ELSE NumOf(SubSeq(chars, 1, Len(chars) - 1)) * 10 + DigitVal(chars[Len(chars)])
\* the pieces of a character sequence between the occurrences of sep
RECURSIVE SplitOn(_, _, _)
SplitOn(text, sep, piece) ==
    IF Len(text) = 0 THEN <<piece>>
    ELSE IF Head(text) = sep THEN <<piece>> \o SplitOn(Tail(text), sep, <<>>)
    ELSE SplitOn(Tail(text), sep, Append(piece, Head(text)))
StampEnd(line) == SetMin({i \in 1..Len(line) : line[i] = " "}) - 1

\* C11: a chapter line is "<timestamp> <title>", followed by " - <description>"
\* exactly when the description is not empty.  With t the start time truncated
\* to whole seconds, the timestamp is HH:MM:SS when t div 3600 > 0 and MM:SS
\* otherwise, HH = t div 3600, MM = (t mod 3600) div 60, SS = t mod 60, each
\* field of at least two digits, MM and SS below 60; 65.9 gives 01:05, 3725.0
\* gives 01:02:05 and 0.0 gives 00:00.
C11_Timestamp ==
    (pc = "done" /\ content.present /\ Len(content.chapters) > 0) =>
        LET lines == SplitLines(fs.files["chapters.txt"], <<>>) IN
        /\ Len(lines) = Len(content.chapters)
        /\ \A i \in 1..Len(lines) :
             LET c      == content.chapters[i]
                 t      == Trunc(c.start_time)
                 stamp  == SubSeq(lines[i], 1, StampEnd(lines[i]))
                 rest   == SubSeq(lines[i], StampEnd(lines[i]) + 2, Len(lines[i]))
                 fields == SplitOn(stamp, ":", <<>>)
                 n      == Len(fields)
             IN  /\ \A k \in 1..n :
                      /\ Len(fields[k]) >= 2
                      /\ Range(fields[k]) \subseteq DigitChars
                      /\ Len(fields[k]) > 2 => fields[k][1] # "0"
                 /\ n = IF t \div 3600 > 0 THEN 3 ELSE 2
                 /\ n = 3 => NumOf(fields[1]) = t \div 3600
                 /\ NumOf(fields[n - 1]) = (t % 3600) \div 60
                 /\ NumOf(fields[n]) = t % 60
                 /\ NumOf(fields[n - 1]) < 60 /\ NumOf(fields[n]) < 60
                 /\ c.start_time = 659 => stamp = <<"0", "1", ":", "0", "5">>
                 /\ c.start_time = 37250 =>
                      stamp = <<"0", "1", ":", "0", "2", ":", "0", "5">>
                 /\ c.start_time = 0 => stamp = <<"0", "0", ":", "0", "0">>
                 /\ rest = IF c.description # ""
                           THEN <<c.title, " ", "-", " ", c.description>>
                           ELSE <<c.title>>

C11_Witness ==
    /\ pc = "done"
    /\ Len(content.chapters) = 2
    /\ content.chapters[2].start_time = 37259
    /\ content.chapters[2].description = "d"
    /\ fs.files["chapters.txt"] =
         <<"0", "0", ":", "0", "0", " ", "A", "\n",
           "0", "1", ":", "0", "2", ":", "0", "5", " ", "B", " ", "-", " ", "d", "\n">>

\* C12: in process and generate a transcription, collaborator or
\* response-parsing failure is never followed by a report of completion, and
\* the run ends with exit status 1 and the error message of that kind of
\* failure, a different message for each kind.
C12_FailureReported ==
    (cmd \in {"process", "generate"}
       /\ error.kind \in {"TranscriptionError", "LLMError", "GenerationError"}) =>
        /\ pc \in {"raised", "exit"}
        /\ content = NoContent
        /\ pc = "exit" =>
             /\ exit_code = 1
             /\ reported \notin {"none", "Done", "traceback"}
             /\ error.kind = "TranscriptionError" <=> reported = "Transcription error"
             /\ error.kind = "LLMError" <=> reported = "LLM error"

\* the text a step renders from the transcript before any cut
Rendering(s, t) ==
    IF s = "chapters" THEN format_transcript_with_timestamps(t) ELSE full_text(t)
EndsWithMarker(p) ==
    /\ Len(p) >= 3
    /\ SubSeq(p, Len(p) - 2, Len(p)) =
         <<"\n", "\n", "[... transcript truncated for length ...]">>

\* C13: the transcript payload of a prompt is the rendering unchanged when
\* the rendering has at most 50,000 characters, and otherwise its first 50,000
\* characters followed by the truncation marker; the marker ends the payload
\* exactly when the rendering was cut.  The rendering is the full text for the
\* description and title prompts and the timestamp-annotated text for the
\* chapter prompt, each measured on its own; no segments give an empty payload.
C13_Truncation ==
    \A i \in 1..Len(calls) :
        LET r == Rendering(calls[i].step, transcript)
            p == calls[i].prompt.transcript
        IN  /\ Len(r) <= 50000 => p = r
            /\ Len(r) > 50000 => /\ Len(p) = 50003
                                 /\ SubSeq(p, 1, 50000) = SubSeq(r, 1, 50000)
            /\ EndsWithMarker(p) <=> Len(r) > 50000
            /\ Len(transcript.segments) = 0 => p = <<>>

C13_Witness ==
    /\ pc = "wait"
    /\ Len(calls) = 3
    /\ Len(full_text(transcript)) = 50000
    /\ calls[1].prompt.transcript = full_text(transcript)
    /\ calls[2].prompt.transcript = full_text(transcript)
    /\ Len(format_transcript_with_timestamps(transcript)) = 50008
    /\ Len(calls[3].prompt.transcript) = 50003
    /\ EndsWithMarker(calls[3].prompt.transcript)

\* C14: a later generate command that reads the transcript.json written by
\* _save_outputs holds a Transcript equal to the one written: the same
\* segments, words, language and duration, in the same order.
C14_RoundTrip ==
    [][(pc = "done" /\ pc' # "done") => (pc' = "call" /\ transcript' = transcript)]_vars

C14_Witness ==
    /\ cmd = "generate"
    /\ pc = "call"
    /\ "transcript.json" \in Range(fs.written)
    /\ Len(transcript.words) = 2
    /\ transcript.words[1] = transcript.words[2]
    /\ transcript.language = "de"
    /\ transcript.segments[1].text = <<"\"", "\n", "y">>

\* an object with exactly one string title, thumbnail_text and reasoning
WellFormedTitle(o) ==
    /\ o.t = "obj"
    /\ \A key \in {"title", "thumbnail_text", "reasoning"} :
         \E i \in 1..Len(o.v) :
            /\ o.v[i].k = key
            /\ o.v[i].val.t = "str"
            /\ \A j \in 1..Len(o.v) : o.v[j].k = key => j = i
FieldOf(o, key) == o.v[CHOOSE i \in 1..Len(o.v) : o.v[i].k = key].val.v

\* C15: when the titles response holds a JSON array of n objects that each
\* have a string title, thumbnail_text and reasoning, generate_titles returns
\* n Titles, the i-th built from the i-th object: nothing reordered, dropped
\* or merged, whatever the transcript.
C15_TitlesInOrder ==
    (/\ AfterParse("titles")
     /\ Parsed(response).ok
     /\ Parsed(response).val.t = "arr"
     /\ \A i \in 1..Len(Parsed(response).val.v) :
           WellFormedTitle(Parsed(response).val.v[i])) =>
        LET a == Parsed(response).val.v IN
        /\ pc = "returned"
        /\ Len(titles) = Len(a)
        /\ \A i \in 1..Len(a) :
             titles[i] = [title |-> FieldOf(a[i], "title"),
                          thumbnail_text |-> FieldOf(a[i], "thumbnail_text"),
                          reasoning |-> FieldOf(a[i], "reasoning")]

C15_Witness ==
    /\ Returned("titles")
    /\ Len(transcript.segments) = 2
    /\ Len(titles) = 10
    /\ titles[1] = titles[5]
    /\ titles[1].title = "A"
    /\ titles[2].title = "B"
    /\ titles[10].thumbnail_text = "A"

\* C16: a client.generate call makes at most 3 API attempts.  It returns on
\* the first attempt that succeeds and makes no further attempt; after a
\* failed attempt of any kind it tries again while fewer than 3 attempts
\* have been made; after a third failed attempt it raises the error of that
\* attempt.  A whole run makes at most 9 API attempts.
C16_BoundedAttempts ==
    /\ attempt \in 0..3
    /\ api_attempts <= 9
    /\ Len(calls) > 0 => /\ api_attempts >= Len(calls) - 1 + attempt
                         /\ api_attempts <= 3 * (Len(calls) - 1) + attempt
    /\ pc = "wait" => outstanding = 1 /\ outcome \in {"none"} \cup ApiFailures
    /\ pc = "wait" /\ outcome = "none" => attempt = 1
    /\ pc \in {"parse", "returned"} => outcome = "ok" /\ outstanding = 0
    /\ pc = "backoff" => outcome \in ApiFailures /\ attempt < 3
    /\ (outcome \in ApiFailures /\ attempt < 3) =>
          pc \in {"wait", "backoff"} /\ error = NoError
    /\ (outcome \in ApiFailures /\ attempt = 3 /\ outstanding = 0) =>
          /\ pc \in {"raised", "exit"}
          /\ error.kind = "LLMError"
          /\ error.reason = outcome
          /\ error.step = step
    /\ error.kind = "LLMError" => outcome \in ApiFailures /\ attempt = 3

C16_Witness ==
    /\ pc = "exit"
    /\ error.kind = "LLMError"
    /\ error.step = "chapters"
    /\ error.reason = "Empty response"
    /\ api_attempts = 9
    /\ attempt = 3

\* without an API key nothing is started
C17_NoKey ==
    (cmd # "transcribe" /\ ~api_key) =>
        /\ pc \in {"start", "exit"}
        /\ transcript = EmptyTranscript
        /\ calls = <<>>
        /\ api_attempts = 0
        /\ fs.written = <<>>
        /\ error = NoError
        /\ pc = "exit" => exit_code = 1 /\ reported = "API key required"
\* files are written only in runs whose three steps succeeded
C17_WrittenLast ==
    (cmd # "transcribe" /\ (fs.written # <<>> \/ error.step \in Range(StepOrder)
                            \/ error.kind = "TranscriptionError")) =>
        /\ error.kind \in {"none", "OSError"} <=> fs.written # <<>>
        /\ fs.written # <<>> =>
             /\ content = GeneratedContent(description, titles, chapters)
             /\ Len(calls) = 3
             /\ pc \in {"done", "raised", "exit"}
\* the step that changes the directory is the writer's
C17_OnlyWriter ==
    (cmd # "transcribe" /\ fs' # fs) =>
        /\ pc = "save"
        /\ content = GeneratedContent(description, titles, chapters)
        /\ Len(calls) = 3
        /\ outstanding = 0
        /\ error = NoError

\* C17: in process and generate the output directory is changed only by
\* _save_outputs, reached with the complete GeneratedContent of three
\* successful generation steps: a run in which the transcription or a
\* generation step fails leaves the directory as it was, and a run without an
\* API key exits with status 1 before any transcription, generation call or
\* write.
C17_NoEarlyWrite == [](C17_NoKey /\ C17_WrittenLast) /\ [][C17_OnlyWriter]_vars

C17_Witness ==
    /\ cmd = "process"
    /\ pc = "exit"
    /\ exit_code = 1
    /\ error.kind = "GenerationError"
    /\ error.step = "chapters"
    /\ Len(transcript.segments) = 2
    /\ Len(titles) = 2
    /\ fs = Dir(FALSE, NoFiles)
====
